---- MODULE Spec2Model ----
(***************************************************************************)
(* steadycache: the caching decorator of src/steadycache/cache.py.         *)
(*                                                                         *)
(* One decorated function f (fname fixed), called concurrently by a small  *)
(* set of callers against one cache_store.  Every statement of wrapped()   *)
(* and update_cache() that touches the store, the lock, the clock or f is  *)
(* one step; the steps of different callers and of the background threads  *)
(* interleave freely and the clock may advance between any two steps.      *)
(***************************************************************************)
EXTENDS Integers, FiniteSets, Sequences, TLC

(* ------------------------------ bounds -------------------------------- *)

\* number of concurrent callers (threads / processes sharing the store)
NCallers == 2

\* number of clock ticks the model follows
MaxTime == 3

\* number of calls of the decorated function the model follows
MaxCalls == 2

\* number of applications of a decorator the model follows
MaxAttempts == 3

\* number of key derivations the model follows
MaxMangled == 2

\* the argument values of the calls whose keys are derived: 1 .. MaxValue
MaxValue == 2

(* ------------------------ decorator configuration ---------------------- *)

\* cache(expires=...): the freshness window, in clock ticks; also the
\* timeout of the lock
Expires == 1

\* cache(stale=...): 0 stands for None
StaleArg == 3

\* if not stale: stale = 2 * expires
Stale == IF StaleArg = 0 THEN 2 * Expires ELSE StaleArg

\* time.time() counts from the epoch: the first reading of the clock is
\* beyond every configured window, so that now - 0 > expires.
StartTime == Stale + 1

Callers == 1 .. NCallers

AllKeys == {"k1", "k2"}

(* --------------------------- stored values ----------------------------- *)

\* What cache_store.get(key) can hand back, and what json.loads makes of it.
\*   absent  : get returned None
\*   garbage : bytes json.loads cannot decode
\*   falsy   : a decodable value that is falsy (0, "", [], {}, null)
\*   scalar  : a decodable, truthy value that is not a dict (5, "x", [1])
\*   record  : a dict; hasTs / hasRes say whether it has 'timestamp' / 'result'
Value(kind, hasTs, ts, hasRes, result) ==
    [kind |-> kind, hasTs |-> hasTs, ts |-> ts, hasRes |-> hasRes, result |-> result]

Absent == Value("absent", FALSE, 0, FALSE, 0)

EmptyDict == Value("falsy", FALSE, 0, FALSE, 0)

\* Values written by something other than this decorator.
ForeignValues ==
    { Value("garbage", FALSE, 0, FALSE, 0),
      Value("falsy", FALSE, 0, FALSE, 0),
      Value("scalar", FALSE, 0, FALSE, 0),
      Value("record", FALSE, 0, TRUE, 0),
      Value("record", TRUE, StartTime, FALSE, 0) }

\* json.dumps({'timestamp': time.time(), 'result': result})
JsonDumps(ts, result) == Value("record", TRUE, ts, TRUE, result)

\* The entry an earlier call of the decorated function left: f returned its
\* first value and update_cache stored it when the clock read StartTime.
EarlierEntry == JsonDumps(StartTime, 1)

\* try: json.loads(cached_result)  except: cached_result = {}
JsonLoads(raw) ==
    IF raw.kind \in {"absent", "garbage"} THEN EmptyDict ELSE raw

\* Python truth of the decoded value: `if cached_result`
Truthy(d) == d.kind \in {"scalar", "record"}

WellFormed(d) == d.kind = "record" /\ d.hasTs /\ d.hasRes

\* cached_result.get('timestamp', 0)
GetTimestamp(d) == IF d.hasTs THEN d.ts ELSE 0

\* age = now - cached_result.get('timestamp', 0) if cached_result else now
Age(d, now) == IF Truthy(d) THEN now - GetTimestamp(d) ELSE now

\* the freshness test with the boundary on the wrong side: age >= expires
NeedsRefreshOffByOne(d, now) == ~Truthy(d) \/ Age(d, now) >= Expires

\* if not cached_result or age > expires
NeedsRefresh(d, now) == ~Truthy(d) \/ Age(d, now) > Expires

\* the staleness test turned around: now - cached_result['timestamp'] > stale
WithinStaleReversed(d, now) == now - d.ts > Stale

\* now - cached_result['timestamp'] < stale
WithinStale(d, now) == now - d.ts < Stale

\* the lock-failed branch without its bg_caching test: if not cached_result
BypassConditionNoBg(bg, d) == ~Truthy(d)

\* the lock-failed branch: if not bg_caching or not cached_result: return f()
BypassCondition(bg, d) == ~bg \/ ~Truthy(d)

(* ------------------------- names and cache keys ------------------------ *)

\* create_cache(cache_store, prefix): the decorator factories of the program
Instances == {"cache1", "cache2"}

\* the prefix a decorator is given, f.__module__ and f.__name__
Prefixes == {"", "A", "A_m"}

Modules == {"m"}

Names == {"foo", "m_foo"}

Functions == [prefix : Prefixes, module : Modules, name : Names]

\* fname = prefix + "_" + f.__module__ + "_" + f.__name__
Fname(prefix, module, name) == prefix \o "_" \o module \o "_" \o name

FnameOf(fn) == Fname(fn.prefix, fn.module, fn.name)

\* the function the engine below is about
TheFunction == [prefix |-> "", module |-> "m", name |-> "foo"]

\* a registry that forgets: the lookup never finds the name
DecoratedGetNever(reg, fname) == FALSE

\* decorated.get(fname): the registry maps the names it holds to True
DecoratedGet(reg, fname) == fname \in reg

\* The decorated functions all have the signature of baw: def baw(a=1, b=1)
Params == << "a", "b" >>

Defaults == [a |-> 1, b |-> 1]

Values == 1 .. MaxValue

\* the names in a sequence of (name, value) items
ItemNames(items) == { items[i][1] : i \in 1 .. Len(items) }

\* the positional arguments and the keyword arguments (in the order the call
\* wrote them) that bind to the signature; anything else raises TypeError in
\* getcallargs before a key exists
Binds(args, kwargs) ==
    /\ Len(args) <= Len(Params)
    /\ \A i \in 1 .. Len(kwargs) :
         /\ \E j \in (Len(args) + 1) .. Len(Params) : kwargs[i][1] = Params[j]
         /\ \A j \in 1 .. Len(kwargs) : kwargs[i][1] = kwargs[j][1] => i = j

PositionalArgs == UNION { [1 .. n -> Values] : n \in 0 .. Len(Params) }

KeywordArgs ==
    UNION { [1 .. n -> { << Params[j], v >> : j \in 1 .. Len(Params), v \in Values }] :
            n \in 0 .. Len(Params) }

CallForms == { c \in [args : PositionalArgs, kwargs : KeywordArgs] : Binds(c.args, c.kwargs) }

\* the defaults of the parameters the call left unbound, in signature order
RECURSIVE DefaultsFrom(_, _)
DefaultsFrom(j, names) ==
    IF j > Len(Params) THEN << >>
    ELSE (IF Params[j] \in names THEN << >> ELSE << << Params[j], Defaults[Params[j]] >> >>)
         \o DefaultsFrom(j + 1, names)

\* inspect.getcallargs(f, *args, **kwargs): the dict in the order it is
\* filled: positional arguments, keyword arguments, then defaults
GetCallArgs(args, kwargs) ==
    LET positional == [i \in 1 .. Len(args) |-> << Params[i], args[i] >>]
        given == positional \o kwargs
    IN  given \o DefaultsFrom(1, ItemNames(given))

\* the mapping from parameter name to value the call binds to
Binding(items) == { items[i] : i \in 1 .. Len(items) }

\* The order in which a dict enumerates its items is the build's: insertion
\* order on some interpreters, hash order (which differs between processes)
\* on others.  Any order can come out.
Orders == Permutations(1 .. Len(Params))

Enumerate(items, o) == [i \in 1 .. Len(items) |-> items[o[i]]]

\* json.dumps of one item of a dict: "name": value
DumpsItem(item) == "\"" \o item[1] \o "\": " \o ToString(item[2])

\* json.dumps(dict): the items in enumeration order, no sort_keys
RECURSIVE DumpsItems(_)
DumpsItems(items) ==
    IF Len(items) = 0 THEN ""
    ELSE IF Len(items) = 1 THEN DumpsItem(items[1])
    ELSE DumpsItem(items[1]) \o ", " \o DumpsItems(Tail(items))

DumpsCallArgs(items) == "{" \o DumpsItems(items) \o "}"

\* a key that leaves the name of the function out
MangleNoFname(fname, items) == "@" \o "_" \o DumpsCallArgs(items)

\* return "@" + fname + "_" + json.dumps(getcallargs(f, *args, **kwargs))
Mangle(fname, items) == "@" \o fname \o "_" \o DumpsCallArgs(items)

(* ------------------------------- state -------------------------------- *)

VARIABLES
    clock,        \* time.time()
    bg_caching,   \* cache(bg_caching=...)
    keys,         \* the cache keys (argument bindings) the callers use
    cache_store,  \* key -> stored value
    lock,         \* the entry of '__lock_' + fname in the store, or NoLock
    count_foo,    \* number of values f has returned; f returns the next one
    ncalls,       \* number of calls of the decorated function so far
    pc,           \* caller -> position in wrapped()
    key,          \* caller -> mangle(fname, f, args, kwargs) of its call
    cached_result,\* caller -> decoded value it read
    now,          \* caller -> its reading of time.time()
    tok,          \* caller -> acquisition time of the lock it acquired
    result,       \* caller -> value f returned
    stamp,        \* caller -> the time.time() of the payload it built
    pending,      \* caller -> error raised inside update_cache's try
    out,          \* caller -> what the call returned or raised
    ran,          \* caller -> times f ran in the calling thread in this call
    wrote,        \* caller -> store writes by the calling thread in this call
    released,     \* caller -> lock.release() calls by the calling thread
    task,         \* caller -> the background thread its calls started
    decorated,    \* the module-level registry: the names that map to True
    attempts,     \* the applications of a decorator so far and how each ended
    mangled       \* the calls whose cache key mangle() has derived, in order

vars == << clock, bg_caching, keys, cache_store, lock, count_foo, ncalls, pc, key,
           cached_result, now, tok, result, stamp, pending, out, ran, wrote,
           released, task, decorated, attempts, mangled >>

shared == << clock, bg_caching, keys, cache_store, lock, count_foo >>

\* what decoration and key derivation work on; wrapped() and update_cache()
\* leave it alone
naming == << decorated, attempts, mangled >>

\* what wrapped() and update_cache() work on
engine == << clock, bg_caching, keys, cache_store, lock, count_foo, ncalls, pc, key,
             cached_result, now, tok, result, stamp, pending, out, ran, wrote,
             released, task >>

NoLock == [owner |-> 0, at |-> 0]

NoOut == [kind |-> "none", val |-> 0, err |-> "none"]

Ret(v) == [kind |-> "ret", val |-> v, err |-> "none"]

Raise(e) == [kind |-> "raise", val |-> 0, err |-> e]

NoTask ==
    [pc |-> "none", tok |-> 0, key |-> "k1", basis |-> Absent, result |-> 0,
     stamp |-> 0, pending |-> "none", wrote |-> FALSE, released |-> 0]

\* return cached_result['result']
ReturnCached(d) == IF d.kind = "record" /\ d.hasRes THEN Ret(d.result) ELSE Raise("KeyError")

PcOf(o) == IF o.kind = "ret" THEN "done" ELSE "raised"

\* wrapped() has not been called yet: no caller is inside it, nobody holds
\* the lock
InitCallers ==
    /\ clock = StartTime
    /\ lock = NoLock
    /\ ncalls = 0
    /\ pc = [c \in Callers |-> "idle"]
    /\ key = [c \in Callers |-> "k1"]
    /\ cached_result = [c \in Callers |-> Absent]
    /\ now = [c \in Callers |-> 0]
    /\ tok = [c \in Callers |-> 0]
    /\ result = [c \in Callers |-> 0]
    /\ stamp = [c \in Callers |-> 0]
    /\ pending = [c \in Callers |-> "none"]
    /\ out = [c \in Callers |-> NoOut]
    /\ ran = [c \in Callers |-> 0]
    /\ wrote = [c \in Callers |-> 0]
    /\ released = [c \in Callers |-> 0]
    /\ task = [c \in Callers |-> NoTask]

\* the callers call the function with one argument binding; the store holds
\* nothing, the entry of an earlier call, or something foreign under its key
InitEngine ==
    /\ InitCallers
    /\ bg_caching \in BOOLEAN
    /\ keys = {"k1"}
    /\ \E v \in {Absent, EarlierEntry} \cup ForeignValues :
         /\ cache_store = [k \in AllKeys |-> IF k = "k1" THEN v ELSE Absent]
         /\ count_foo = IF v = EarlierEntry THEN 1 ELSE 0

\* one application of a decorator: who applied it to what, and how it ended
Attempt(inst, fn, outcome) ==
    [inst |-> inst, fn |-> fn, fname |-> FnameOf(fn), outcome |-> outcome]

\* the decorator has been applied once, to the function the callers call
Init ==
    /\ InitEngine
    /\ decorated = {FnameOf(TheFunction)}
    /\ attempts = << Attempt("cache1", TheFunction, "wrapped") >>
    /\ mangled = << >>

(* ------------------------------ the lock ------------------------------- *)

\* The lock entry belongs to the Lock object that wrote it (its uuid): here
\* the caller that acquired it and the time of the acquisition.
Owns(c, t) == lock /= NoLock /\ lock.owner = c /\ lock.at = t

\* a lock entry without a timeout
ExpiredNever(l, t) == FALSE

\* The store drops a lock entry when its timeout (= expires) has passed.
Expired(l, t) == l /= NoLock /\ t - l.at >= Expires

(* ------------------------------ wrapped() ------------------------------ *)

\* A caller whose previous call is over (returned or raised) may call again.
\* A caller stands for a calling thread together with the background thread
\* it started: a call made while that thread is still running is a call of
\* another caller.
CanCall(c, k) ==
    /\ pc[c] \in {"idle", "done", "raised"}
    /\ task[c].pc \in {"none", "finished", "crashed"}
    /\ k \in keys
    /\ ncalls < MaxCalls

\* The locals of a new call of wrapped().
NewFrame(c) ==
    /\ tok' = [tok EXCEPT ![c] = 0]
    /\ result' = [result EXCEPT ![c] = 0]
    /\ stamp' = [stamp EXCEPT ![c] = 0]
    /\ pending' = [pending EXCEPT ![c] = "none"]
    /\ ran' = [ran EXCEPT ![c] = 0]
    /\ wrote' = [wrote EXCEPT ![c] = 0]
    /\ released' = [released EXCEPT ![c] = 0]

\* What wrapped() does with the decoded value before it needs the lock:
\*   age = now - cached_result.get('timestamp', 0) if cached_result else now
\*   if not cached_result or age > expires: (go for the lock)
\*   return cached_result['result']
AfterRead(d, n) ==
    IF d.kind = "scalar" THEN Raise("AttributeError")
    ELSE IF NeedsRefresh(d, n) THEN NoOut
    ELSE ReturnCached(d)

\* cached_result = cache_store.get(mangle(fname, f, args, kwargs)); json.loads;
\* now = time.time(); the freshness test
Get(c, k) ==
    /\ CanCall(c, k)
    /\ ncalls' = ncalls + 1
    /\ key' = [key EXCEPT ![c] = k]
    /\ cached_result' = [cached_result EXCEPT ![c] = JsonLoads(cache_store[k])]
    /\ now' = [now EXCEPT ![c] = clock]
    /\ LET o == AfterRead(JsonLoads(cache_store[k]), clock)
       IN  /\ out' = [out EXCEPT ![c] = o]
           /\ pc' = [pc EXCEPT ![c] = IF o = NoOut THEN "acquire" ELSE PcOf(o)]
    /\ NewFrame(c)
    /\ UNCHANGED << naming, shared, task >>

\* cache_store.get raises (store unreachable, timeout): nothing catches it
GetFail(c, k) ==
    /\ CanCall(c, k)
    /\ ncalls' = ncalls + 1
    /\ key' = [key EXCEPT ![c] = k]
    /\ cached_result' = [cached_result EXCEPT ![c] = Absent]
    /\ now' = [now EXCEPT ![c] = 0]
    /\ out' = [out EXCEPT ![c] = Raise("StoreError")]
    /\ pc' = [pc EXCEPT ![c] = "raised"]
    /\ NewFrame(c)
    /\ UNCHANGED << naming, shared, task >>

\* Where the caller goes once lock.acquire() returned True:
\* if bg_caching and cached_result and now - cached_result['timestamp'] < stale
BranchLocked(bg, d, n) ==
    IF bg /\ Truthy(d)
    THEN IF ~d.hasTs THEN "raised"
         ELSE IF WithinStale(d, n) THEN "spawn" ELSE "sync"
    ELSE "sync"

\* lock = cache_store.lock('__lock_' + fname, timeout=expires, ...)
\* lock.acquire() returns True
AcquireOk(c) ==
    /\ pc[c] = "acquire"
    /\ lock = NoLock
    /\ lock' = [owner |-> c, at |-> clock]
    /\ tok' = [tok EXCEPT ![c] = clock]
    /\ LET b == BranchLocked(bg_caching, cached_result[c], now[c])
       IN  /\ pc' = [pc EXCEPT ![c] = b]
           /\ out' = [out EXCEPT ![c] = IF b = "raised" THEN Raise("KeyError") ELSE NoOut]
    /\ UNCHANGED << naming, clock, bg_caching, keys, cache_store, count_foo, ncalls, key,
                    cached_result, now, result, stamp, pending, ran, wrote, released, task >>

\* lock.acquire() without a blocking_timeout: it does not come back while the
\* lock is held
AcquireBlocks(c) ==
    /\ pc[c] = "acquire"
    /\ lock /= NoLock
    /\ FALSE
    /\ UNCHANGED vars

\* lock.acquire() returns False after blocking_timeout: the lock is held
AcquireFail(c) ==
    /\ pc[c] = "acquire"
    /\ lock /= NoLock
    /\ LET d == cached_result[c]
           o == IF BypassCondition(bg_caching, d) THEN NoOut ELSE ReturnCached(d)
       IN  /\ out' = [out EXCEPT ![c] = o]
           /\ pc' = [pc EXCEPT ![c] = IF o = NoOut THEN "bypass" ELSE PcOf(o)]
    /\ UNCHANGED << naming, shared, ncalls, key, cached_result, now, tok, result, stamp, pending, ran, wrote, released, task >>

\* threading.Thread(target=update_cache, args=(f, lock) + args).start()
\* then: return cached_result['result']
Spawn(c) ==
    /\ pc[c] = "spawn"
    /\ task[c].pc \in {"none", "finished", "crashed"}
    /\ task' = [task EXCEPT ![c] =
                  [pc |-> "compute", tok |-> tok[c], key |-> key[c],
                   basis |-> cached_result[c], result |-> 0, stamp |-> 0,
                   pending |-> "none",
                   wrote |-> FALSE, released |-> 0]]
    /\ LET o == ReturnCached(cached_result[c])
       IN  /\ out' = [out EXCEPT ![c] = o]
           /\ pc' = [pc EXCEPT ![c] = PcOf(o)]
    /\ UNCHANGED << naming, shared, ncalls, key, cached_result, now, tok, result, stamp, pending, ran, wrote, released >>

\* What lock.release() raises: nothing when the Lock object still owns the
\* entry, an error when the entry is gone or belongs to another Lock.
ReleaseError(c, t) == IF Owns(c, t) THEN "none" ELSE "LockError"

\* except Exception as e: lock.release(); raise e
SpawnFail(c) ==
    /\ pc[c] = "spawn"
    /\ released' = [released EXCEPT ![c] = @ + 1]
    /\ lock' = IF Owns(c, tok[c]) THEN NoLock ELSE lock
    /\ out' = [out EXCEPT ![c] =
                 IF ReleaseError(c, tok[c]) = "none" THEN Raise("ThreadError")
                 ELSE Raise(ReleaseError(c, tok[c]))]
    /\ pc' = [pc EXCEPT ![c] = "raised"]
    /\ tok' = [tok EXCEPT ![c] = 0]
    /\ UNCHANGED << naming, clock, bg_caching, keys, cache_store, count_foo, ncalls, key,
                    cached_result, now, result, stamp, pending, ran, wrote, task >>

(* --------------- update_cache() in the calling thread ------------------ *)

\* result = f(*args, **kwargs) returns; the arguments of cache_store.set are
\* evaluated: the key, and json.dumps({'timestamp': time.time(), ...})
SyncCompute(c) ==
    /\ pc[c] = "sync"
    /\ count_foo' = count_foo + 1
    /\ result' = [result EXCEPT ![c] = count_foo + 1]
    /\ stamp' = [stamp EXCEPT ![c] = clock]
    /\ ran' = [ran EXCEPT ![c] = @ + 1]
    /\ pc' = [pc EXCEPT ![c] = "set"]
    /\ UNCHANGED << naming, clock, bg_caching, keys, cache_store, lock, ncalls, key,
                    cached_result, now, tok, pending, out, wrote, released, task >>

\* f raises
SyncFRaise(c) ==
    /\ pc[c] = "sync"
    /\ ran' = [ran EXCEPT ![c] = @ + 1]
    /\ pending' = [pending EXCEPT ![c] = "FError"]
    /\ pc' = [pc EXCEPT ![c] = "release"]
    /\ UNCHANGED << naming, shared, ncalls, key, cached_result, now, tok, result, stamp, out, wrote, released, task >>

\* cache_store.set(key, payload)
SyncSet(c) ==
    /\ pc[c] = "set"
    /\ cache_store' = [cache_store EXCEPT ![key[c]] = JsonDumps(stamp[c], result[c])]
    /\ wrote' = [wrote EXCEPT ![c] = @ + 1]
    /\ pc' = [pc EXCEPT ![c] = "release"]
    /\ UNCHANGED << naming, clock, bg_caching, keys, lock, count_foo, ncalls, key,
                    cached_result, now, tok, result, stamp, pending, out, ran, released, task >>

\* cache_store.set raises
SyncSetFail(c) ==
    /\ pc[c] = "set"
    /\ pending' = [pending EXCEPT ![c] = "SetError"]
    /\ pc' = [pc EXCEPT ![c] = "release"]
    /\ UNCHANGED << naming, shared, ncalls, key, cached_result, now, tok, result, stamp, out, ran, wrote, released, task >>

\* What update_cache hands to its caller after `finally: lock.release()`:
\* an error of release() replaces the result and any error of the try block.
Outcome(relErr, err, r) ==
    IF relErr /= "none" THEN Raise(relErr)
    ELSE IF err /= "none" THEN Raise(err)
    ELSE Ret(r)

\* finally: lock.release(); update_cache's frame (lock, payload) is gone
SyncRelease(c) ==
    /\ pc[c] = "release"
    /\ released' = [released EXCEPT ![c] = @ + 1]
    /\ lock' = IF Owns(c, tok[c]) THEN NoLock ELSE lock
    /\ LET o == Outcome(ReleaseError(c, tok[c]), pending[c], result[c])
       IN  /\ out' = [out EXCEPT ![c] = o]
           /\ pc' = [pc EXCEPT ![c] = PcOf(o)]
    /\ tok' = [tok EXCEPT ![c] = 0]
    /\ stamp' = [stamp EXCEPT ![c] = 0]
    /\ UNCHANGED << naming, clock, bg_caching, keys, cache_store, count_foo, ncalls, key,
                    cached_result, now, result, pending, ran, wrote, task >>

(* ------------------ the lock-failed path: return f() ------------------- *)

\* a bypass path that stores what f returned
BypassStores(c) ==
    /\ pc[c] = "bypass"
    /\ count_foo' = count_foo + 1
    /\ ran' = [ran EXCEPT ![c] = @ + 1]
    /\ result' = [result EXCEPT ![c] = count_foo + 1]
    /\ out' = [out EXCEPT ![c] = Ret(count_foo + 1)]
    /\ pc' = [pc EXCEPT ![c] = "done"]
    /\ cache_store' = [cache_store EXCEPT ![key[c]] = JsonDumps(clock, count_foo + 1)]
    /\ UNCHANGED << naming, clock, bg_caching, keys, lock, ncalls, key,
                    cached_result, now, tok, stamp, pending, wrote, released, task >>

\* return f(*args, **kwargs): f returns
Bypass(c) ==
    /\ pc[c] = "bypass"
    /\ count_foo' = count_foo + 1
    /\ ran' = [ran EXCEPT ![c] = @ + 1]
    /\ result' = [result EXCEPT ![c] = count_foo + 1]
    /\ out' = [out EXCEPT ![c] = Ret(count_foo + 1)]
    /\ pc' = [pc EXCEPT ![c] = "done"]
    /\ UNCHANGED << naming, clock, bg_caching, keys, cache_store, lock, ncalls, key,
                    cached_result, now, tok, stamp, pending, wrote, released, task >>

\* return f(*args, **kwargs): f raises
BypassFRaise(c) ==
    /\ pc[c] = "bypass"
    /\ ran' = [ran EXCEPT ![c] = @ + 1]
    /\ out' = [out EXCEPT ![c] = Raise("FError")]
    /\ pc' = [pc EXCEPT ![c] = "raised"]
    /\ UNCHANGED << naming, shared, ncalls, key, cached_result, now, tok, result, stamp, pending, wrote, released, task >>

(* --------------- update_cache() in the background thread --------------- *)

\* result = f(*args, **kwargs) returns in the background thread; the payload
\* is built
TaskCompute(c) ==
    /\ task[c].pc = "compute"
    /\ count_foo' = count_foo + 1
    /\ task' = [task EXCEPT ![c].result = count_foo + 1, ![c].stamp = clock,
                            ![c].pc = "set"]
    /\ UNCHANGED << naming, clock, bg_caching, keys, cache_store, lock, ncalls, pc, key,
                    cached_result, now, tok, result, stamp, pending, out, ran, wrote, released >>

\* a background failure that reaches the call that started the thread
TaskFRaiseToCaller(c) ==
    /\ task[c].pc = "compute"
    /\ task' = [task EXCEPT ![c].pending = "FError", ![c].pc = "release"]
    /\ out' = [out EXCEPT ![c] = Raise("FError")]
    /\ UNCHANGED << naming, shared, ncalls, pc, key, cached_result, now, tok, result, stamp, pending,
                    ran, wrote, released >>

\* f raises in the background thread
TaskFRaise(c) ==
    /\ task[c].pc = "compute"
    /\ task' = [task EXCEPT ![c].pending = "FError", ![c].pc = "release"]
    /\ UNCHANGED << naming, shared, ncalls, pc, key, cached_result, now, tok, result, stamp, pending,
                    out, ran, wrote, released >>

TaskSet(c) ==
    /\ task[c].pc = "set"
    /\ cache_store' = [cache_store EXCEPT ![task[c].key] = JsonDumps(task[c].stamp, task[c].result)]
    /\ task' = [task EXCEPT ![c].wrote = TRUE, ![c].pc = "release"]
    /\ UNCHANGED << naming, clock, bg_caching, keys, lock, count_foo, ncalls, pc, key,
                    cached_result, now, tok, result, stamp, pending, out, ran, wrote, released >>

TaskSetFail(c) ==
    /\ task[c].pc = "set"
    /\ task' = [task EXCEPT ![c].pending = "SetError", ![c].pc = "release"]
    /\ UNCHANGED << naming, shared, ncalls, pc, key, cached_result, now, tok, result, stamp, pending,
                    out, ran, wrote, released >>

\* finally: lock.release(); the thread ends, whatever was raised dies with it
TaskRelease(c) ==
    /\ task[c].pc = "release"
    /\ lock' = IF Owns(c, task[c].tok) THEN NoLock ELSE lock
    /\ task' = [task EXCEPT ![c] =
                  [NoTask EXCEPT !.pc = "finished", !.basis = task[c].basis,
                                 !.tok = task[c].tok,
                                 !.wrote = task[c].wrote, !.released = 1,
                                 !.pending = Outcome(ReleaseError(c, task[c].tok),
                                                     task[c].pending, 0).err]]
    /\ UNCHANGED << naming, clock, bg_caching, keys, cache_store, count_foo, ncalls, pc, key,
                    cached_result, now, tok, result, stamp, pending, out, ran, wrote, released >>

(* ----------------------------- environment ----------------------------- *)

\* time passes; a lock entry older than its timeout is dropped by the store
Tick ==
    /\ clock < StartTime + MaxTime
    /\ clock' = clock + 1
    /\ lock' = IF Expired(lock, clock + 1) THEN NoLock ELSE lock
    /\ UNCHANGED << naming, bg_caching, keys, cache_store, count_foo, ncalls, pc, key,
                    cached_result, now, tok, result, stamp, pending, out, ran, wrote,
                    released, task >>

Next ==
    \/ Tick
    \/ \E c \in Callers :
         \/ \E k \in AllKeys : Get(c, k)
         \/ \E k \in AllKeys : GetFail(c, k)
         \/ AcquireOk(c)
         \/ AcquireFail(c)
         \/ Spawn(c)
         \/ SpawnFail(c)
         \/ SyncCompute(c)
         \/ SyncFRaise(c)
         \/ SyncSet(c)
         \/ SyncSetFail(c)
         \/ SyncRelease(c)
         \/ Bypass(c)
         \/ BypassFRaise(c)
         \/ TaskCompute(c)
         \/ TaskFRaise(c)
         \/ TaskSet(c)
         \/ TaskSetFail(c)
         \/ TaskRelease(c)

Spec == Init /\ [][Next]_vars

(* ------------------------------ scheduling ----------------------------- *)

\* the steps of the call of c in its own thread
CallerStep(c) ==
    \/ AcquireOk(c)
    \/ AcquireFail(c)
    \/ Spawn(c)
    \/ SpawnFail(c)
    \/ SyncCompute(c)
    \/ SyncFRaise(c)
    \/ SyncSet(c)
    \/ SyncSetFail(c)
    \/ SyncRelease(c)
    \/ Bypass(c)
    \/ BypassFRaise(c)

\* the steps of the background thread c started
TaskStep(c) ==
    \/ TaskCompute(c)
    \/ TaskFRaise(c)
    \/ TaskSet(c)
    \/ TaskSetFail(c)
    \/ TaskRelease(c)

\* Every thread that can take a step eventually takes one: f, the store
\* operations and lock.acquire() (blocking_timeout=0.1) all come back.
Fairness ==
    \A c \in Callers : WF_vars(CallerStep(c)) /\ WF_vars(TaskStep(c))

LiveSpec == Init /\ [][Next]_vars /\ Fairness

(* ------------------------ holders that crash -------------------------- *)

\* the thread (process) of a call dies or hangs for good between
\* lock.acquire() and lock.release(): nothing of it runs any more
Crash(c) ==
    /\ pc[c] \in {"spawn", "sync", "set", "release"}
    /\ pc' = [pc EXCEPT ![c] = "crashed"]
    /\ UNCHANGED << naming, shared, ncalls, key, cached_result, now, tok, result, stamp,
                    pending, out, ran, wrote, released, task >>

\* the same for a background thread inside update_cache
CrashTask(c) ==
    /\ task[c].pc \in {"compute", "set", "release"}
    /\ task' = [task EXCEPT ![c].pc = "crashed"]
    /\ UNCHANGED << naming, shared, ncalls, pc, key, cached_result, now, tok, result, stamp,
                    pending, out, ran, wrote, released >>

NextCrash ==
    \/ Next
    \/ \E c \in Callers : Crash(c)
    \/ \E c \in Callers : CrashTask(c)

SpecCrash == Init /\ [][NextCrash]_vars

(* ---------------------- calls with different keys --------------------- *)

\* the callers call the function with two argument bindings (two keys)
InitTwoKeys ==
    /\ InitCallers
    /\ bg_caching \in BOOLEAN
    /\ keys = AllKeys
    /\ \E v \in {Absent, EarlierEntry} :
         /\ cache_store = [k \in AllKeys |-> IF k = "k1" THEN v ELSE Absent]
         /\ count_foo = IF v = EarlierEntry THEN 1 ELSE 0
    /\ decorated = {FnameOf(TheFunction)}
    /\ attempts = << Attempt("cache1", TheFunction, "wrapped") >>
    /\ mangled = << >>

SpecTwoKeys == InitTwoKeys /\ [][Next]_vars

(* ------------------- decoration and key derivation --------------------- *)

\* decorate(f), applied through the decorator of any create_cache instance:
\*   if decorated.get(fname): raise CacheNameClashException(...)
\*   decorated[fname] = True;  ...;  return wrapped
Decorate(inst, fn) ==
    /\ Len(attempts) < MaxAttempts
    /\ IF DecoratedGet(decorated, FnameOf(fn))
       THEN /\ attempts' = Append(attempts, Attempt(inst, fn, "CacheNameClashException"))
            /\ decorated' = decorated
       ELSE /\ attempts' = Append(attempts, Attempt(inst, fn, "wrapped"))
            /\ decorated' = decorated \cup {FnameOf(fn)}
    /\ UNCHANGED << engine, mangled >>

\* no decorator has been applied yet
InitRegistry ==
    /\ InitEngine
    /\ ~bg_caching
    /\ cache_store["k1"] = Absent
    /\ decorated = {}
    /\ attempts = << >>
    /\ mangled = << >>

NextRegistry == \E inst \in Instances, fn \in Functions : Decorate(inst, fn)

SpecRegistry == InitRegistry /\ [][NextRegistry]_vars

\* the decorated functions: the applications that returned wrapped
Wrapped == { attempts[i].fn : i \in { j \in 1 .. Len(attempts) : attempts[j].outcome = "wrapped" } }

\* wrapped() of a decorated function derives the key of a call:
\* mangle(fname, f, args, kwargs)
MangleCall(fn, call, o) ==
    /\ Len(mangled) < MaxMangled
    /\ fn \in Wrapped
    /\ mangled' = Append(mangled,
                         [fn |-> fn, call |-> call,
                          binding |-> Binding(GetCallArgs(call.args, call.kwargs)),
                          mkey |-> Mangle(FnameOf(fn),
                                          Enumerate(GetCallArgs(call.args, call.kwargs), o))])
    /\ UNCHANGED << engine, decorated, attempts >>

\* two decorations have succeeded
InitMangle ==
    /\ InitEngine
    /\ ~bg_caching
    /\ cache_store["k1"] = Absent
    /\ \E f1, f2 \in Functions :
         /\ FnameOf(f1) /= FnameOf(f2)
         /\ decorated = {FnameOf(f1), FnameOf(f2)}
         /\ attempts = << Attempt("cache1", f1, "wrapped"), Attempt("cache1", f2, "wrapped") >>
    /\ mangled = << >>

NextMangle ==
    \E fn \in Functions, call \in CallForms, o \in Orders : MangleCall(fn, call, o)

SpecMangle == InitMangle /\ [][NextMangle]_vars

(* ------------------------- vocabulary of the claims -------------------- *)

\* the call of c is over: it returned or raised
Over(c) == pc[c] \in {"done", "raised"}

\* the call of c read a well-formed entry (numeric timestamp, result)
ReadEntry(c) == pc[c] /= "idle" /\ WellFormed(cached_result[c])

\* the age of that entry as the call computed it
AgeAtRead(c) == now[c] - cached_result[c].ts

ReadFresh(c) == ReadEntry(c) /\ AgeAtRead(c) <= Expires

ReadExpired(c) == ReadEntry(c) /\ AgeAtRead(c) > Expires

ReadInWindow(c) == ReadEntry(c) /\ AgeAtRead(c) > Expires /\ AgeAtRead(c) < Stale

ReadBeyondStale(c) == ReadEntry(c) /\ AgeAtRead(c) >= Stale

\* the background threads that have ended
TasksEnded == \A c \in Callers : task[c].pc \in {"none", "finished"}

\* number of store writes made by background threads started by calls that
\* read entry e
TaskWrites(e) ==
    Cardinality({c \in Callers : task[c].pc /= "none" /\ task[c].wrote /\ task[c].basis = e})

\* the call of c acquired the lock and the calling thread did not release it
KeptLock(c) == tok[c] /= 0

\* ... and a background thread of that call has the Lock object
HandedOver(c) == task[c].pc /= "none" /\ task[c].tok = tok[c]

\* the key of the refresh whose Lock object wrote the present lock entry: the
\* owner's call while it is inside update_cache or about to start the
\* thread, else the background thread it started
HolderKey ==
    IF tok[lock.owner] = lock.at /\ pc[lock.owner] \in {"spawn", "sync", "set", "release"}
    THEN key[lock.owner]
    ELSE task[lock.owner].key

\* the store-writing refreshes in progress: update_cache running in a calling
\* thread, or in a background thread
SyncRefreshing == { c \in Callers : pc[c] \in {"sync", "set", "release"} }

TaskRefreshing == { c \in Callers : task[c].pc \in {"compute", "set", "release"} }

\* the call of c is over, it went for the lock and lock.acquire() returned
\* False
LostLock(c) ==
    /\ Over(c)
    /\ cached_result[c].kind /= "scalar"
    /\ out[c].err /= "StoreError"
    /\ NeedsRefresh(cached_result[c], now[c])
    /\ tok[c] = 0
    /\ released[c] = 0

\* the call of c is inside wrapped()
InCall(c) == pc[c] \in {"acquire", "spawn", "sync", "set", "release", "bypass"}

(* -------------------------------- claims ------------------------------- *)

\* C1 (as claimed): with bg_caching false, two callers that read the same
\* expired entry and both return persist exactly one new entry between them.
C1_SingleWriter ==
    \A c1, c2 \in Callers :
        ( /\ ~bg_caching
          /\ c1 /= c2
          /\ ReadExpired(c1) /\ ReadExpired(c2)
          /\ cached_result[c1] = cached_result[c2]
          /\ pc[c1] = "done" /\ pc[c2] = "done" )
        => wrote[c1] + wrote[c2] = 1

\* C2 (as claimed): with bg_caching true, when two callers read the same
\* entry with expires < age < stale and nothing raises, the store is written
\* exactly once, by a background thread and by no calling thread.
C2_SingleBackgroundUpdate ==
    \A c1, c2 \in Callers :
        ( /\ bg_caching
          /\ c1 /= c2
          /\ ReadInWindow(c1) /\ ReadInWindow(c2)
          /\ cached_result[c1] = cached_result[c2]
          /\ pc[c1] = "done" /\ pc[c2] = "done"
          /\ TasksEnded
          /\ \A c \in Callers : task[c].pending = "none" )
        => /\ TaskWrites(cached_result[c1]) = 1
           /\ wrote[c1] = 0 /\ wrote[c2] = 0

\* C3 (as claimed): with bg_caching true, every call that read an entry with
\* expires < age < stale returns that entry's result and never runs f in the
\* calling thread.
C3_AlwaysReturnsStale ==
    \A c \in Callers :
        (bg_caching /\ ReadInWindow(c) /\ Over(c))
        => /\ out[c] = Ret(cached_result[c].result)
           /\ ran[c] = 0

\* C3 (amended): such a call never runs f in the calling thread and never
\* writes the store; it returns the entry's result, or, when the background
\* thread cannot be started, calls release() once and raises.
C3_StaleOrSpawnError ==
    \A c \in Callers :
        (bg_caching /\ ReadInWindow(c) /\ Over(c))
        => /\ ran[c] = 0
           /\ wrote[c] = 0
           /\ \/ out[c] = Ret(cached_result[c].result)
              \/ /\ out[c] \in {Raise("ThreadError"), Raise("LockError")}
                 /\ released[c] = 1
                 /\ ~KeptLock(c)

\* C3 witness: a call that won the lock in the window, started the
\* background thread and returned the stale result, while another call lost
\* the lock and returned the same stale result.
C3_Witness ==
    \E c1, c2 \in Callers :
        /\ bg_caching
        /\ c1 /= c2
        /\ ReadInWindow(c1) /\ pc[c1] = "done" /\ KeptLock(c1) /\ HandedOver(c1)
        /\ ReadInWindow(c2) /\ pc[c2] = "done" /\ ~KeptLock(c2)
        /\ out[c1] = out[c2]

\* C4 (as claimed): with bg_caching true, no call returns the cached result
\* of an entry whose age at read time is >= stale; it runs f instead.
C4_StalenessBound ==
    \A c \in Callers :
        (bg_caching /\ ReadBeyondStale(c) /\ pc[c] = "done")
        => /\ ran[c] = 1
           /\ out[c].val /= cached_result[c].result

\* C5 (as claimed): a call that acquired the lock never ends with the lock
\* unreleased by the calling thread unless a background thread holds the
\* Lock object, and release() is called at most once per acquisition.
C5_ReleaseOnEveryExit ==
    \A c \in Callers :
        /\ (Over(c) /\ KeptLock(c)) => HandedOver(c)
        /\ released[c] <= 1
        /\ task[c].released <= 1

\* C6: a call that reads a well-formed entry of age <= expires returns that
\* entry's result at once: f does not run, the store is not written, the
\* lock is not tried.
C6_FreshReadsIdempotent ==
    \A c \in Callers :
        ReadFresh(c)
        => /\ pc[c] = "done"
           /\ out[c] = Ret(cached_result[c].result)
           /\ ran[c] = 0
           /\ wrote[c] = 0
           /\ released[c] = 0
           /\ ~KeptLock(c)

\* C6 witness: N consecutive calls read the entry one computation persisted,
\* within its freshness window, and f has still run exactly once.
C6_Witness ==
    /\ \A c \in Callers : ReadFresh(c) /\ pc[c] = "done" /\ cached_result[c] = EarlierEntry
    /\ count_foo = 1
    /\ ncalls = NCallers

C8_GetFailureIsMiss ==
    \A c \in Callers : Over(c) => out[c].err /= "StoreError"

\* C9 (as claimed): a call that found a value that is no well-formed record
\* runs f as on a miss, never raises because of the value and never ends with
\* the lock still its own.
C9_CorruptIsMiss ==
    \A c \in Callers :
        (Over(c) /\ ~ReadEntry(c) /\ out[c].err /= "StoreError")
        => /\ ran[c] = 1
           /\ out[c].err \notin {"AttributeError", "KeyError"}
           /\ ~(KeptLock(c) /\ Owns(c, tok[c]))

\* C10 (as claimed): when f raises on a synchronous path the caller gets
\* that same error, the store was not written by the call and the lock is
\* not left to the call.
C10_SyncErrorPropagates ==
    \A c \in Callers :
        (Over(c) /\ pending[c] = "FError")
        => /\ out[c] = Raise("FError")
           /\ wrote[c] = 0
           /\ ~KeptLock(c)

\* C11: an application of the decorator raises CacheNameClashException
\* exactly when an earlier application, through any create_cache instance,
\* returned wrapped for the same derived name; the failed application leaves
\* the registry as it was, and the registry holds exactly the names of the
\* applications that returned wrapped (nothing is ever removed).
C11_NameClashRejected ==
    /\ decorated = { attempts[i].fname :
                       i \in { j \in 1 .. Len(attempts) : attempts[j].outcome = "wrapped" } }
    /\ \A i \in 1 .. Len(attempts) :
         /\ attempts[i].outcome \in {"wrapped", "CacheNameClashException"}
         /\ attempts[i].outcome = "CacheNameClashException"
              <=> \E j \in 1 .. (i - 1) :
                     /\ attempts[j].fname = attempts[i].fname
                     /\ attempts[j].outcome = "wrapped"

\* C11 witness: a name registered through one create_cache instance is
\* rejected twice afterwards, the first time for a different function (other
\* prefix and name, same derived name) through another instance.
C11_Witness ==
    /\ Len(attempts) = 3
    /\ attempts[1].outcome = "wrapped"
    /\ attempts[2].outcome = "CacheNameClashException"
    /\ attempts[3].outcome = "CacheNameClashException"
    /\ attempts[2].fname = attempts[1].fname
    /\ attempts[3].fname = attempts[1].fname
    /\ attempts[2].fn /= attempts[1].fn
    /\ attempts[2].inst /= attempts[1].inst
    /\ decorated = {attempts[1].fname}

\* C12 (as claimed): two calls of one decorated function get the same key
\* from mangle() if and only if they bind to the same mapping from parameter
\* name to value, whatever the order in which the mapping is enumerated.
C12_KeyIffSameBinding ==
    \A i, j \in 1 .. Len(mangled) :
        mangled[i].fn = mangled[j].fn
        => (mangled[i].mkey = mangled[j].mkey <=> mangled[i].binding = mangled[j].binding)

\* C13: two calls, with any arguments, of two decorated functions that have
\* the same module and function name and different prefixes never get the
\* same key from mangle().
C13_PrefixIsolation ==
    \A i, j \in 1 .. Len(mangled) :
        ( /\ mangled[i].fn.module = mangled[j].fn.module
          /\ mangled[i].fn.name = mangled[j].fn.name
          /\ mangled[i].fn.prefix /= mangled[j].fn.prefix )
        => mangled[i].mkey /= mangled[j].mkey

\* C13 witness: the same call, enumerated in the same order, of two functions
\* that differ in their prefix only, one prefix extending the other by the
\* module's name.
C13_Witness ==
    /\ Len(mangled) = 2
    /\ mangled[1].fn.module = mangled[2].fn.module
    /\ mangled[1].fn.name = mangled[2].fn.name
    /\ mangled[1].fn.prefix = "A"
    /\ mangled[2].fn.prefix = "A_m"
    /\ mangled[1].call = mangled[2].call
    /\ mangled[1].mkey = Mangle(FnameOf(mangled[1].fn), GetCallArgs(mangled[1].call.args, mangled[1].call.kwargs))
    /\ mangled[2].mkey = Mangle(FnameOf(mangled[2].fn), GetCallArgs(mangled[2].call.args, mangled[2].call.kwargs))

\* C14 (as claimed): the lock is per cache key, so lock.acquire() of a call
\* fails only while a refresh of that call's own key holds the lock.
C14_LockPerKey ==
    [][ \A c \in Callers :
          (pc[c] = "acquire" /\ pc'[c] /= "acquire" /\ tok'[c] = 0)
          => HolderKey = key[c] ]_vars

\* C15 (as claimed): no lock holder crashes, and at no time are two
\* store-writing refreshes of the key in progress, however long f takes.
C15_SingleFlight ==
    Cardinality(SyncRefreshing) + Cardinality(TaskRefreshing) <= 1

C17_BypassLeavesStore ==
    [][ \A c \in Callers :
          /\ (pc[c] = "acquire" /\ pc'[c] /= "acquire" /\ tok'[c] = 0
                /\ BypassCondition(bg_caching, cached_result[c]))
             => pc'[c] = "bypass"
          /\ (pc[c] /= "bypass" /\ pc'[c] = "bypass")
             => /\ pc[c] = "acquire"
                /\ lock /= NoLock
                /\ BypassCondition(bg_caching, cached_result[c])
                /\ ran'[c] = 0
                /\ cache_store' = cache_store
                /\ lock' = lock
          /\ (pc[c] = "bypass" /\ pc'[c] /= "bypass")
             => /\ pc'[c] \in {"done", "raised"}
                /\ ran'[c] = 1
                /\ wrote'[c] = 0
                /\ released'[c] = 0
                /\ tok'[c] = 0
                /\ cache_store' = cache_store
                /\ lock' = lock
                /\ out'[c] \in {Ret(count_foo + 1), Raise("FError")}
                /\ pc'[c] = "done" => (out'[c] = Ret(count_foo + 1) /\ count_foo' = count_foo + 1)
          /\ (pc[c] = "bypass" /\ pc'[c] = "bypass")
             => /\ ran'[c] = 0
                /\ wrote'[c] = 0
                /\ released'[c] = 0
                /\ tok'[c] = 0 ]_vars

\* C17 witness: a call on a miss was refused the lock, ran f once and
\* returned its value without storing it, while the holder's value is the
\* one in the store.
C17_Witness ==
    \E c, h \in Callers :
        /\ c /= h
        /\ ~Truthy(cached_result[c])
        /\ pc[c] = "done"
        /\ ran[c] = 1
        /\ wrote[c] = 0
        /\ released[c] = 0
        /\ out[c] = Ret(result[c])
        /\ pc[h] = "done"
        /\ wrote[h] = 1
        /\ result[h] /= result[c]
        /\ cache_store[key[c]] = JsonDumps(now[h], result[h])

\* C18: when f raises inside a background thread, that step and the
\* thread's `finally: lock.release()` leave the store entry and every
\* caller's outcome as they are, release() is called once and the lock is not
\* the thread's afterwards; the call that started the thread has returned
\* the entry's result, and no call that read an entry in the window ever
\* raises f's error.
C18_BackgroundFailureAbsorbed ==
    /\ [](\A c \in Callers :
            (bg_caching /\ ReadInWindow(c) /\ Over(c)) => out[c].err /= "FError")
    /\ [][ \A c \in Callers :
             /\ (pc[c] = "spawn" /\ pc'[c] = "done")
                => /\ task'[c].pc = "compute"
                   /\ WellFormed(cached_result[c])
                   /\ out'[c] = Ret(cached_result[c].result)
             /\ (task[c].pc = "compute" /\ task'[c].pc = "release")
                => /\ task'[c].pending = "FError"
                   /\ ~task'[c].wrote
                   /\ cache_store' = cache_store
                   /\ out' = out
                   /\ pc' = pc
             /\ (task[c].pc = "release" /\ task[c].pending = "FError" /\ task'[c].pc /= "release")
                => /\ task'[c].pc = "finished"
                   /\ task'[c].released = 1
                   /\ ~task'[c].wrote
                   /\ cache_store' = cache_store
                   /\ out' = out
                   /\ pc' = pc
                   /\ ~(lock' /= NoLock /\ lock'.owner = c /\ lock'.at = task[c].tok) ]_vars

\* C18 witness: the background thread of a call failed in f and released the
\* lock; the entry is the one the call read; that call and another caller
\* that read the entry in the window both returned its result.
C18_Witness ==
    \E c, d \in Callers :
        /\ c /= d
        /\ bg_caching
        /\ task[c].pc = "finished"
        /\ task[c].pending = "FError"
        /\ ~task[c].wrote
        /\ task[c].released = 1
        /\ lock = NoLock
        /\ ReadInWindow(c)
        /\ cache_store[key[c]] = cached_result[c]
        /\ out[c] = Ret(cached_result[c].result)
        /\ ReadInWindow(d)
        /\ out[d] = out[c]
        /\ pc[d] = "done"

\* C19 (as claimed): every store write of update_cache carries a timestamp
\* greater than or equal to that of the entry it overwrites.
C19_TimestampsMonotonic ==
    [][ \A k \in AllKeys :
          (cache_store'[k] /= cache_store[k] /\ WellFormed(cache_store[k]))
          => cache_store'[k].ts >= cache_store[k].ts ]_vars

\* C20: a call inside wrapped() can always take its next step, whatever the
\* other callers and the background threads are doing (it waits for nobody),
\* and every call eventually returns or raises.
C20_EveryCallTerminates ==
    /\ [](\A c \in Callers : InCall(c) => ENABLED CallerStep(c))
    /\ \A c \in Callers : InCall(c) ~> Over(c)

\* C20 witness: a call that was refused the lock while another call was
\* inside update_cache has returned, and the holder is still inside.
C20_Witness ==
    \E c, h \in Callers :
        /\ c /= h
        /\ pc[h] \in {"sync", "set", "release"}
        /\ Owns(h, tok[h])
        /\ pc[c] = "done"
        /\ ran[c] = 1
        /\ released[c] = 0
        /\ NeedsRefresh(cached_result[c], now[c])

====
